---- MODULE Spec2Model ----
(***************************************************************************)
(* Model of main.py: a key=value file is parsed into a context, an output  *)
(* file name is computed, and a DOCX template is rendered with the context.*)
(*                                                                         *)
(* A Python str is a sequence of one-character strings.  None is the       *)
(* one-element sequence None below, whose element is not a character, so   *)
(* it differs from every str.                                              *)
(***************************************************************************)
EXTENDS Integers, Sequences, FiniteSets, TLC

VARIABLES
    pc,          \* position of the run in main / parse_kv_file / safe_filename
    outdir0,     \* state of the --outdir path when the run starts
    outdir,      \* state of the --outdir path now
    tpl_exists,  \* tpl_path.exists()
    kv_state,    \* the --kvfile path: "ok", "missing", "unreadable", "undecodable"
    kv_lines,    \* the lines the file iterator yields (without the terminator)
    gen_result,  \* what docxtpl will do: "ok", "render_fails", "save_fails"
    name_arg,    \* args.name (None when --name is not given)
    lineno,      \* parse_kv_file: number of the line last read
    key,         \* parse_kv_file: local key
    val,         \* parse_kv_file: local val
    data,        \* parse_kv_file: the dict data; main: ctx after the return
    warnings,    \* line numbers of the "skipping invalid line" warnings
    out_name,    \* main: out_name
    doc_written, \* whether something was written at out_path
    calls,       \* the functions main has called, in order
    exit_code,   \* process exit status (-1 while running)
    sf_s,        \* safe_filename harness: argument s
    sf_maxlen,   \* safe_filename harness: argument maxlen
    sf_result    \* safe_filename harness: returned value

vars == <<pc, outdir0, outdir, tpl_exists, kv_state, kv_lines, gen_result,
          name_arg, lineno, key, val, data, warnings, out_name, doc_written,
          calls, exit_code, sf_s, sf_maxlen, sf_result>>

----------------------------------------------------------------------------
(* Bounds *)

MaxLineLen == 4      \* longest line of a one-line KV file
MaxFileLines == 2    \* most lines of a multi-line KV file
MaxShortLen == 2     \* longest line of a multi-line KV file
MaxCtxLines == 2     \* most lines of the KV file of a whole run
MaxStrLen == 5       \* longest argument of safe_filename
MaxMaxLen == 3       \* largest small maxlen tried

----------------------------------------------------------------------------
(* Characters and strings *)

None == <<"None">>

Whitespace == {" ", "\t", "\n", "\r", "\f"}

WordChars ==
    {"a","b","c","d","e","f","g","h","i","j","k","l","m",
     "n","o","p","q","r","s","t","u","v","w","x","y","z",
     "A","B","C","D","E","F","G","H","I","J","K","L","M",
     "N","O","P","Q","R","S","T","U","V","W","X","Y","Z",
     "0","1","2","3","4","5","6","7","8","9","_"}

Quotes == {"'", "\""}

IsSpace(c) == c \in Whitespace

IsWord(c) == c \in WordChars

Strings(alphabet, n) == UNION {[1..k -> alphabet] : k \in 0..n}

Files(lines, n) == UNION {[1..k -> lines] : k \in 0..n}

Truthy(v) == v # None /\ v # <<>>

RECURSIVE lstrip(_)
lstrip(s) == IF s = <<>> THEN <<>>
             ELSE IF IsSpace(Head(s)) THEN lstrip(Tail(s)) ELSE s

RECURSIVE rstrip(_)
rstrip(s) == IF s = <<>> THEN <<>>
             ELSE IF IsSpace(s[Len(s)]) THEN rstrip(SubSeq(s, 1, Len(s) - 1))
             ELSE s

strip(s) == rstrip(lstrip(s))

Contains(s, c) == \E i \in 1..Len(s) : s[i] = c

startswith(s, c) == s # <<>> /\ Head(s) = c

RECURSIVE find(_, _)
find(s, c) == IF s = <<>> THEN 0
              ELSE IF Head(s) = c THEN 1
              ELSE IF find(Tail(s), c) = 0 THEN 0 ELSE 1 + find(Tail(s), c)

\* variant: the split is made at the last "="
split1_last(s, c) ==
    LET p == CHOOSE i \in 1..Len(s) : s[i] = c /\ \A j \in (i+1)..Len(s) : s[j] # c
    IN  <<SubSeq(s, 1, p - 1), SubSeq(s, p + 1, Len(s))>>

\* line.split("=", 1) for a line that contains "=": <<before, after>>
split1(s, c) == <<SubSeq(s, 1, find(s, c) - 1), SubSeq(s, find(s, c) + 1, Len(s))>>

\* s[:n], negative n counting from the end
SliceTo(s, n) ==
    IF n >= 0 THEN SubSeq(s, 1, IF n < Len(s) THEN n ELSE Len(s))
    ELSE SubSeq(s, 1, IF Len(s) + n > 0 THEN Len(s) + n ELSE 0)

\* variant: the two quotes need not be the same character
unquote_any_pair(v) ==
    IF Len(v) >= 2 /\ v[1] \in Quotes /\ v[Len(v)] \in Quotes
    THEN SubSeq(v, 2, Len(v) - 1)
    ELSE v

\* lines 48-49: val[1:-1] when val is wrapped in a matching pair of quotes
unquote(v) ==
    IF Len(v) >= 2 /\ v[1] = v[Len(v)] /\ v[1] \in Quotes
    THEN SubSeq(v, 2, Len(v) - 1)
    ELSE v

\* variant: an existing key keeps its value
DictSet_keep_first(d, k, v) == [x \in DOMAIN d \cup {k} |-> IF x \in DOMAIN d THEN d[x] ELSE v]

\* data[key] = val
DictSet(d, k, v) == [x \in DOMAIN d \cup {k} |-> IF x = k THEN v ELSE d[x]]

\* ctx.get(k)
DictGet(d, k) == IF k \in DOMAIN d THEN d[k] ELSE None

EmptyDict == [x \in {} |-> <<>>]

----------------------------------------------------------------------------
(* safe_filename *)

DefaultMaxLen == 120

OUTPUT == <<"o","u","t","p","u","t">>

\* re.sub(r"[^\w\s-]", "", s)
RemoveUnsafe(s) == SelectSeq(s, LAMBDA c : IsWord(c) \/ IsSpace(c) \/ c = "-")

\* re.sub(r"\s+", "_", s)
RECURSIVE CollapseSpace(_)
CollapseSpace(s) ==
    IF s = <<>> THEN <<>>
    ELSE IF IsSpace(Head(s)) THEN <<"_">> \o CollapseSpace(lstrip(Tail(s)))
    ELSE <<Head(s)>> \o CollapseSpace(Tail(s))

\* variant: one character too many is kept
Truncate_off_by_one(s, maxlen) == SliceTo(s, maxlen + 1)

Truncate(s, maxlen) == SliceTo(s, maxlen)

Fallback(s) == IF s # <<>> THEN s ELSE OUTPUT

\* variant: the fallback is applied before the truncation
safe_filename_fallback_first(s, maxlen) ==
    LET s1 == IF Truthy(s) THEN s ELSE <<>>
        s2 == strip(s1)
        s3 == RemoveUnsafe(s2)
        s4 == CollapseSpace(s3)
    IN  Truncate(Fallback(s4), maxlen)

safe_filename(s, maxlen) ==
    LET s1 == IF Truthy(s) THEN s ELSE <<>>
        s2 == strip(s1)
        s3 == RemoveUnsafe(s2)
        s4 == CollapseSpace(s3)
    IN  Fallback(Truncate(s4, maxlen))

----------------------------------------------------------------------------
(* main: the automatic output file name, lines 92-98 *)

FIRSTNAME == <<"F","I","R","S","T","N","A","M","E">>
name_key == <<"n","a","m","e">>
Name_key == <<"N","a","m","e">>
FULLNAME == <<"F","U","L","L","N","A","M","E">>
FULL_NAME == <<"F","U","L","L","_","N","A","M","E">>

DOCUMENT == <<"d","o","c","u","m","e","n","t">>
DOCX == <<".","d","o","c","x">>

\* Python's  a or b
Or(a, b) == IF Truthy(a) THEN a ELSE b

\* variant: name is tried before FIRSTNAME
candidate_name_first(ctx) ==
    Or(DictGet(ctx, name_key),
       Or(DictGet(ctx, FIRSTNAME),
          Or(DictGet(ctx, Name_key),
             Or(DictGet(ctx, FULLNAME),
                Or(DictGet(ctx, FULL_NAME), <<>>)))))

\* line 96
candidate(ctx) ==
    Or(DictGet(ctx, FIRSTNAME),
       Or(DictGet(ctx, name_key),
          Or(DictGet(ctx, Name_key),
             Or(DictGet(ctx, FULLNAME),
                Or(DictGet(ctx, FULL_NAME), <<>>)))))

\* lines 97-98
auto_name(ctx) ==
    (IF Truthy(candidate(ctx))
     THEN safe_filename(candidate(ctx), DefaultMaxLen)
     ELSE DOCUMENT) \o DOCX

----------------------------------------------------------------------------
(* Inputs *)

LASTNAME == <<"L","A","S","T","N","A","M","E">>
Anna == <<"A","n","n","a">>
Smith == <<"S","m","i","t","h">>
JohnDoe == <<"J","o","h","n"," ","D","o","e","!","!">>
John_Doe == <<"J","o","h","n","_","D","o","e">>
CustomName == <<"x",".","d","o","c","x">>

\* the lines a KV file of a whole run is made of
CtxLines ==
    { FIRSTNAME \o <<"=">> \o Anna,
      FIRSTNAME \o <<"=">>,
      name_key \o <<"=","B","o","b","!">>,
      Name_key \o <<" ","="," ","\"","a"," ","b","\"">>,
      FULLNAME \o <<"=","x">>,
      FULL_NAME \o <<"=","-">>,
      LASTNAME \o <<"=">> \o Smith,
      <<"#"," ","c","=","1">>,
      <<"j","u","n","k">> }

\* characters of the lines of a one-line KV file
LineAlphabet == {"a", " ", "=", "#", "\"", "'"}

\* characters of the lines of a multi-line KV file
ShortAlphabet == {"a", "A", " ", "=", "#"}

\* longer lines of a multi-line KV file: a key with two different values, the
\* same key in the other letter case, a key and a value to trim
LongerLines ==
    { <<"a","=","a">>, <<"a","=","A">>, <<"A","=","a">>, <<"a"," ","=">>,
      <<" ","a","=","A"," ">>, <<"#","a","=","a">> }

FileLines == Strings(ShortAlphabet, MaxShortLen) \cup LongerLines

\* characters of the arguments of safe_filename
NameAlphabet == {"a", " ", "-", "!"}

----------------------------------------------------------------------------
(* Actions *)

envVars == <<outdir0, tpl_exists, kv_state, kv_lines, gen_result, name_arg>>
parseVars == <<lineno, key, val, data, warnings>>
sfVars == <<sf_s, sf_maxlen, sf_result>>

\* variant: the directory is not created
Mkdir_not_created ==
    /\ pc = "mkdir"
    /\ pc' = "check_tpl"
    /\ UNCHANGED <<envVars, parseVars, sfVars, outdir, out_name, doc_written, calls,
                   exit_code>>

\* lines 73-76: outdir.mkdir(parents=True, exist_ok=True).  It raises when the
\* path is an existing non-directory or cannot be created; main does not catch
\* that, and the interpreter ends an uncaught exception with status 1.
Mkdir ==
    /\ pc = "mkdir"
    /\ IF outdir \in {"absent", "dir"}
       THEN /\ outdir' = "dir"
            /\ pc' = "check_tpl"
            /\ exit_code' = exit_code
       ELSE /\ outdir' = outdir
            /\ pc' = "exit"
            /\ exit_code' = 1
    /\ UNCHANGED <<envVars, parseVars, sfVars, out_name, doc_written, calls>>

\* variant: the template is not checked before parsing
CheckTemplate_not_checked ==
    /\ pc = "check_tpl"
    /\ pc' = "parse_open"
    /\ UNCHANGED <<envVars, parseVars, sfVars, outdir, out_name, doc_written, calls,
                   exit_code>>

\* lines 78-80
CheckTemplate ==
    /\ pc = "check_tpl"
    /\ IF tpl_exists
       THEN /\ pc' = "parse_open"
            /\ exit_code' = exit_code
       ELSE /\ pc' = "exit"
            /\ exit_code' = 2
    /\ UNCHANGED <<envVars, parseVars, sfVars, outdir, out_name, doc_written, calls>>

\* line 83 and lines 32-35: the call, data = {}, the existence check and the
\* open; an exception is caught at lines 84-86
ParseOpen ==
    /\ pc = "parse_open"
    /\ calls' = Append(calls, "parse_kv_file")
    /\ data' = EmptyDict
    /\ IF kv_state \in {"missing", "unreadable"}
       THEN /\ pc' = "exit"
            /\ exit_code' = 3
       ELSE /\ pc' = "parse_loop"
            /\ exit_code' = exit_code
    /\ UNCHANGED <<envVars, sfVars, lineno, key, val, warnings, outdir, out_name,
                   doc_written>>

\* line 36 on a file that is not UTF-8: the read raises, caught at lines 84-86
ParseDecodeError ==
    /\ pc = "parse_loop"
    /\ kv_state = "undecodable"
    /\ pc' = "exit"
    /\ exit_code' = 3
    /\ UNCHANGED <<envVars, parseVars, sfVars, outdir, out_name, doc_written, calls>>

\* variant: a comment line that contains "=" is parsed
ParseLine_comment_parsed ==
    /\ pc = "parse_loop"
    /\ kv_state = "ok"
    /\ lineno < Len(kv_lines)
    /\ lineno' = lineno + 1
    /\ LET line == strip(kv_lines[lineno + 1])
       IN  IF line = <<>> \/ (startswith(line, "#") /\ ~Contains(line, "="))
           THEN /\ pc' = "parse_loop"
                /\ UNCHANGED <<key, val, warnings>>
           ELSE IF ~Contains(line, "=")
           THEN /\ pc' = "parse_loop"
                /\ warnings' = Append(warnings, lineno + 1)
                /\ UNCHANGED <<key, val>>
           ELSE /\ pc' = "parse_store"
                /\ key' = strip(split1(line, "=")[1])
                /\ val' = strip(split1(line, "=")[2])
                /\ UNCHANGED warnings
    /\ UNCHANGED <<envVars, sfVars, data, outdir, out_name, doc_written, calls,
                   exit_code>>

\* lines 36-46: one iteration up to the two strips
ParseLine ==
    /\ pc = "parse_loop"
    /\ kv_state = "ok"
    /\ lineno < Len(kv_lines)
    /\ lineno' = lineno + 1
    /\ LET line == strip(kv_lines[lineno + 1])
       IN  IF line = <<>> \/ startswith(line, "#")
           THEN /\ pc' = "parse_loop"
                /\ UNCHANGED <<key, val, warnings>>
           ELSE IF ~Contains(line, "=")
           THEN /\ pc' = "parse_loop"
                /\ warnings' = Append(warnings, lineno + 1)
                /\ UNCHANGED <<key, val>>
           ELSE /\ pc' = "parse_store"
                /\ key' = strip(split1(line, "=")[1])
                /\ val' = strip(split1(line, "=")[2])
                /\ UNCHANGED warnings
    /\ UNCHANGED <<envVars, sfVars, data, outdir, out_name, doc_written, calls,
                   exit_code>>

\* lines 48-50: the rest of the iteration
ParseStore ==
    /\ pc = "parse_store"
    /\ val' = unquote(val)
    /\ data' = DictSet(data, key, unquote(val))
    /\ pc' = "parse_loop"
    /\ UNCHANGED <<envVars, sfVars, lineno, key, warnings, outdir, out_name,
                   doc_written, calls, exit_code>>

\* line 51
ParseReturn ==
    /\ pc = "parse_loop"
    /\ kv_state = "ok"
    /\ lineno = Len(kv_lines)
    /\ pc' = "parse_done"
    /\ UNCHANGED <<envVars, parseVars, sfVars, outdir, out_name, doc_written, calls,
                   exit_code>>

\* lines 88-100
BuildName ==
    /\ pc = "parse_done"
    /\ out_name' = IF Truthy(name_arg) THEN name_arg ELSE auto_name(data)
    /\ pc' = "generate"
    /\ UNCHANGED <<envVars, parseVars, sfVars, outdir, doc_written, calls, exit_code>>

\* variant: a failure of generate_doc is swallowed
GenerateDoc_swallowed ==
    /\ pc = "generate"
    /\ calls' = Append(calls, "generate_doc")
    /\ pc' = "exit"
    /\ doc_written' = (gen_result = "ok")
    /\ exit_code' = 0
    /\ UNCHANGED <<envVars, parseVars, sfVars, outdir, out_name>>

\* lines 102-107 and 60-63; a save that fails may leave a partial file
GenerateDoc ==
    /\ pc = "generate"
    /\ calls' = Append(calls, "generate_doc")
    /\ pc' = "exit"
    /\ IF gen_result = "ok"
       THEN /\ doc_written' = TRUE
            /\ exit_code' = 0
       ELSE /\ doc_written' \in (IF gen_result = "save_fails" THEN BOOLEAN ELSE {FALSE})
            /\ exit_code' = 4
    /\ UNCHANGED <<envVars, parseVars, sfVars, outdir, out_name>>

\* lines 53-58: one call of safe_filename
SafeFilenameCall ==
    /\ pc = "sf_call"
    /\ sf_result' = safe_filename(sf_s, sf_maxlen)
    /\ pc' = "sf_done"
    /\ UNCHANGED <<envVars, parseVars, outdir, out_name, doc_written, calls, exit_code,
                   sf_s, sf_maxlen>>

----------------------------------------------------------------------------
(* Specifications *)

InitCommon ==
    /\ lineno = 0
    /\ key = <<>>
    /\ val = <<>>
    /\ data = EmptyDict
    /\ warnings = <<>>
    /\ out_name = <<>>
    /\ doc_written = FALSE
    /\ calls = <<>>
    /\ exit_code = -1
    /\ sf_result = <<>>

\* a whole run of main, after parse_args
Init ==
    /\ InitCommon
    /\ pc = "mkdir"
    /\ outdir0 \in {"absent", "dir", "file", "denied"}
    /\ outdir = outdir0
    /\ tpl_exists \in BOOLEAN
    /\ kv_state \in {"ok", "missing", "unreadable", "undecodable"}
    /\ kv_lines \in (IF kv_state = "ok" THEN Files(CtxLines, MaxCtxLines) ELSE {<<>>})
    /\ gen_result \in {"ok", "render_fails", "save_fails"}
    /\ name_arg \in {None, <<>>, CustomName}
    /\ sf_s = <<>>
    /\ sf_maxlen = DefaultMaxLen

Next ==
    \/ Mkdir
    \/ CheckTemplate
    \/ ParseOpen
    \/ ParseDecodeError
    \/ ParseLine
    \/ ParseStore
    \/ ParseReturn
    \/ BuildName
    \/ GenerateDoc

Spec == Init /\ [][Next]_vars

InitParse ==
    /\ InitCommon
    /\ pc = "parse_open"
    /\ outdir0 = "dir"
    /\ outdir = "dir"
    /\ tpl_exists = TRUE
    /\ kv_state = "ok"
    /\ gen_result = "ok"
    /\ name_arg = None
    /\ sf_s = <<>>
    /\ sf_maxlen = DefaultMaxLen

NextParse ==
    \/ ParseOpen
    \/ ParseLine
    \/ ParseStore
    \/ ParseReturn

\* parse_kv_file on every one-line file
InitLine ==
    /\ InitParse
    /\ kv_lines \in {<<l>> : l \in Strings(LineAlphabet, MaxLineLen)}

SpecLine == InitLine /\ [][NextParse]_vars

\* parse_kv_file on every file of short lines
InitFile ==
    /\ InitParse
    /\ kv_lines \in Files(FileLines, MaxFileLines)

SpecFile == InitFile /\ [][NextParse]_vars

\* safe_filename on every short argument, on None and on "John Doe!!"
InitSafe ==
    /\ InitCommon
    /\ pc = "sf_call"
    /\ outdir0 = "dir"
    /\ outdir = "dir"
    /\ tpl_exists = TRUE
    /\ kv_state = "ok"
    /\ kv_lines = <<>>
    /\ gen_result = "ok"
    /\ name_arg = None
    /\ sf_s \in Strings(NameAlphabet, MaxStrLen) \cup {None, JohnDoe}
    /\ sf_maxlen \in (-1..MaxMaxLen) \cup {DefaultMaxLen}

NextSafe == SafeFilenameCall

SpecSafe == InitSafe /\ [][NextSafe]_vars

----------------------------------------------------------------------------
(* Vocabulary of the properties, stated on the raw lines *)

IsBlank(l) == \A i \in 1..Len(l) : IsSpace(l[i])

IsComment(l) == \E i \in 1..Len(l) : l[i] = "#" /\ \A j \in 1..(i - 1) : IsSpace(l[j])

HasEq(l) == \E i \in 1..Len(l) : l[i] = "="

IsValid(l) == ~IsBlank(l) /\ ~IsComment(l) /\ HasEq(l)

FirstEq(l) == CHOOSE i \in 1..Len(l) : l[i] = "=" /\ \A j \in 1..(i - 1) : l[j] # "="

\* t is s without its leading and trailing whitespace
IsTrimOf(t, s) ==
    \E i \in 1..(Len(s) + 1) : \E j \in (i - 1)..Len(s) :
        /\ t = SubSeq(s, i, j)
        /\ \A k \in 1..(i - 1) : IsSpace(s[k])
        /\ \A k \in (j + 1)..Len(s) : IsSpace(s[k])
        /\ t = <<>> \/ (~IsSpace(t[1]) /\ ~IsSpace(t[Len(t)]))

KeyOfLine(l) == strip(SubSeq(l, 1, FirstEq(l) - 1))

ValueOfLine(l) == unquote(strip(SubSeq(l, FirstEq(l) + 1, Len(l))))

AtLineBoundary == pc \in {"parse_loop", "parse_done"}

NameBuilt == pc = "generate" \/ (pc = "exit" /\ exit_code \in {0, 4})

MkdirRaises == outdir0 \in {"file", "denied"}

\* what is left of s before the truncation
Cleaned(s) == CollapseSpace(RemoveUnsafe(strip(IF Truthy(s) THEN s ELSE <<>>)))

IsPrefix(t, s) == Len(t) <= Len(s) /\ t = SubSeq(s, 1, Len(t))

----------------------------------------------------------------------------
(* Properties *)

\* C1: without an explicit name the output file name is the sanitized value of
\* the first of FIRSTNAME, name, Name, FULLNAME, FULL_NAME that has a non-empty
\* value, followed by ".docx", and "document.docx" when none has; only
\* LASTNAME=Smith gives "document.docx", FIRSTNAME=Anna gives "Anna.docx".
C1_AutoName ==
    (NameBuilt /\ ~Truthy(name_arg)) =>
        LET Priority == <<FIRSTNAME, name_key, Name_key, FULLNAME, FULL_NAME>>
            IsCand(i) == Priority[i] \in DOMAIN data /\ data[Priority[i]] # <<>>
            Cands == {i \in 1..5 : IsCand(i)}
        IN  /\ IF Cands = {}
               THEN out_name = <<"d","o","c","u","m","e","n","t",".","d","o","c","x">>
               ELSE LET first == CHOOSE i \in Cands : \A j \in Cands : i <= j
                    IN  out_name = safe_filename(data[Priority[first]], 120)
                                       \o <<".","d","o","c","x">>
            /\ (DOMAIN data = {LASTNAME} /\ data[LASTNAME] = Smith)
                   => out_name = <<"d","o","c","u","m","e","n","t",".","d","o","c","x">>
            /\ (FIRSTNAME \in DOMAIN data /\ data[FIRSTNAME] = Anna)
                   => out_name = <<"A","n","n","a",".","d","o","c","x">>

\* FIRSTNAME is present but empty, so the value of name is used
C1_Witness ==
    /\ NameBuilt
    /\ name_arg = None
    /\ FIRSTNAME \in DOMAIN data
    /\ data[FIRSTNAME] = <<>>
    /\ name_key \in DOMAIN data
    /\ out_name = <<"B","o","b",".","d","o","c","x">>

\* C2 as stated: every run ends with exit status 0, 2, 3 or 4; an exception of
\* parse_kv_file gives 3, one of generate_doc gives 4, and 0 needs the template
\* to exist and both calls to raise nothing.
C2_Original ==
    pc = "exit" =>
        /\ exit_code \in {0, 2, 3, 4}
        /\ ("parse_kv_file" \in {calls[i] : i \in 1..Len(calls)} /\ kv_state # "ok")
               => exit_code = 3
        /\ ("generate_doc" \in {calls[i] : i \in 1..Len(calls)} /\ gen_result # "ok")
               => exit_code = 4
        /\ exit_code = 0 => (tpl_exists /\ kv_state = "ok" /\ gen_result = "ok")

\* C2 amended: a run ends in exactly one of five ways: the uncaught exception of
\* the directory creation (status 1), template not found (2), KV file failure
\* (3), generation failure (4), success (0), each decided by the first step
\* that fails.
C2_Outcomes ==
    pc = "exit" =>
        /\ exit_code \in {0, 1, 2, 3, 4}
        /\ exit_code = 1 <=> MkdirRaises
        /\ exit_code = 2 <=> (~MkdirRaises /\ ~tpl_exists)
        /\ exit_code = 3 <=> (~MkdirRaises /\ tpl_exists /\ kv_state # "ok")
        /\ exit_code = 4 <=> (~MkdirRaises /\ tpl_exists /\ kv_state = "ok"
                                /\ gen_result # "ok")
        /\ exit_code = 0 <=> (~MkdirRaises /\ tpl_exists /\ kv_state = "ok"
                                /\ gen_result = "ok")
        /\ exit_code # 4 => (doc_written <=> exit_code = 0)

C2_Witness ==
    /\ pc = "exit"
    /\ exit_code = 4
    /\ gen_result = "save_fails"
    /\ calls = <<"parse_kv_file", "generate_doc">>

\* C3 as stated: a run whose template does not exist ends with status 2 and
\* never calls parse_kv_file or generate_doc, whatever the KV file is.
C3_Original ==
    ~tpl_exists =>
        /\ calls = <<>>
        /\ pc = "exit" => exit_code = 2

\* C3 amended: a run whose template does not exist never calls parse_kv_file
\* or generate_doc and never ends with status 3; it ends with status 2 when the
\* output directory could be created and with status 1 when it could not.
C3_TemplateFirst ==
    ~tpl_exists =>
        /\ calls = <<>>
        /\ pc = "exit" => exit_code = (IF MkdirRaises THEN 1 ELSE 2)

\* template and KV file both missing: template-not-found
C3_Witness ==
    /\ pc = "exit"
    /\ ~tpl_exists
    /\ kv_state = "missing"
    /\ exit_code = 2
    /\ calls = <<>>

\* C4: for a valid line the key is the trimmed text before the first "=" and
\* the value, before quote stripping, the trimmed text after it; only a valid
\* line stores a key.
C4_KeyValueSplit ==
    /\ pc = "parse_store" =>
           LET raw == kv_lines[lineno]
           IN  /\ IsValid(raw)
               /\ IsTrimOf(key, SubSeq(raw, 1, FirstEq(raw) - 1))
               /\ IsTrimOf(val, SubSeq(raw, FirstEq(raw) + 1, Len(raw)))
    /\ (AtLineBoundary /\ lineno = 1) =>
           IF IsValid(kv_lines[1])
           THEN /\ DOMAIN data = {key}
                /\ IsTrimOf(key, SubSeq(kv_lines[1], 1, FirstEq(kv_lines[1]) - 1))
           ELSE data = EmptyDict

\* a line starting with "=" whose value contains another "="
C4_Witness ==
    /\ pc = "parse_done"
    /\ kv_lines[1] # <<>>
    /\ Head(kv_lines[1]) = "="
    /\ DOMAIN data = {<<>>}
    /\ Contains(data[<<>>], "=")

C6_Skipping ==
    AtLineBoundary =>
        LET ValidIdx == {i \in 1..lineno : IsValid(kv_lines[i])}
            WarnIdx == {i \in 1..lineno : /\ ~IsBlank(kv_lines[i])
                                          /\ ~IsComment(kv_lines[i])
                                          /\ ~HasEq(kv_lines[i])}
        IN  /\ DOMAIN data = {KeyOfLine(kv_lines[i]) : i \in ValidIdx}
            /\ \A k \in DOMAIN data :
                   \E i \in ValidIdx : /\ KeyOfLine(kv_lines[i]) = k
                                       /\ ValueOfLine(kv_lines[i]) = data[k]
            /\ Len(warnings) = Cardinality(WarnIdx)
            /\ {warnings[i] : i \in 1..Len(warnings)} = WarnIdx
            /\ pc = "parse_done" => lineno = Len(kv_lines)
            /\ exit_code = -1

\* a comment containing "=" and then a line without "="
C6_Witness ==
    /\ pc = "parse_done"
    /\ Len(kv_lines) = 2
    /\ IsComment(kv_lines[1])
    /\ HasEq(kv_lines[1])
    /\ warnings = <<2>>
    /\ data = EmptyDict

\* C7: each key maps to the value of the last valid line with exactly that
\* key; lines that are all valid give no warning and no error.
C7_LastWins ==
    AtLineBoundary =>
        /\ \A i \in 1..lineno :
               (/\ IsValid(kv_lines[i])
                /\ \A j \in (i + 1)..lineno :
                       IsValid(kv_lines[j]) => KeyOfLine(kv_lines[j]) # KeyOfLine(kv_lines[i]))
               => /\ KeyOfLine(kv_lines[i]) \in DOMAIN data
                  /\ data[KeyOfLine(kv_lines[i])] = ValueOfLine(kv_lines[i])
        /\ (\A i \in 1..lineno : IsValid(kv_lines[i])) => warnings = <<>>
        /\ exit_code = -1

\* two valid lines with the same key and different values
C7_Witness ==
    /\ pc = "parse_done"
    /\ Len(kv_lines) = 2
    /\ IsValid(kv_lines[1])
    /\ IsValid(kv_lines[2])
    /\ KeyOfLine(kv_lines[1]) = KeyOfLine(kv_lines[2])
    /\ KeyOfLine(kv_lines[1]) # <<>>
    /\ ValueOfLine(kv_lines[1]) # ValueOfLine(kv_lines[2])
    /\ data[KeyOfLine(kv_lines[2])] = ValueOfLine(kv_lines[2])

\* C8 as stated: a string longer than maxlen gives exactly maxlen characters.
C8_Original ==
    (pc = "sf_done" /\ sf_s # None /\ Len(sf_s) > sf_maxlen)
        => Len(sf_result) = sf_maxlen

\* C8 amended: for maxlen >= 1, when what is left of the string after trimming,
\* removal of unsafe characters and whitespace collapsing is longer than maxlen,
\* the result is its first maxlen characters.
C8_Truncation ==
    (pc = "sf_done" /\ sf_maxlen >= 1 /\ Len(Cleaned(sf_s)) > sf_maxlen)
        => /\ Len(sf_result) = sf_maxlen
           /\ IsPrefix(sf_result, Cleaned(sf_s))

\* something was removed and something was cut off
C8_Witness ==
    /\ pc = "sf_done"
    /\ sf_s # None
    /\ sf_maxlen >= 1
    /\ Len(sf_s) > Len(Cleaned(sf_s))
    /\ Len(Cleaned(sf_s)) > sf_maxlen
    /\ Len(sf_result) = sf_maxlen

\* C9: the result is never empty and holds only word characters and hyphens;
\* it is longer than maxlen only as the fallback "output"; the steps come in
\* the order trim, remove, collapse, truncate, fallback.
C9_SafeResult ==
    pc = "sf_done" =>
        /\ sf_result # <<>>
        /\ \A i \in 1..Len(sf_result) : IsWord(sf_result[i]) \/ sf_result[i] = "-"
        /\ (sf_maxlen >= 0 /\ Len(sf_result) > sf_maxlen)
               => sf_result = <<"o","u","t","p","u","t">>
        /\ sf_result = <<"o","u","t","p","u","t">>
               <=> \/ Cleaned(sf_s) = <<>>
                   \/ sf_maxlen = 0
                   \/ (sf_maxlen < 0 /\ Len(Cleaned(sf_s)) + sf_maxlen <= 0)
        /\ (sf_s = JohnDoe /\ sf_maxlen = 120)
               => sf_result = <<"J","o","h","n","_","D","o","e">>
        /\ sf_s \in {None, <<>>} => sf_result = <<"o","u","t","p","u","t">>
        \* trimmed before the removal
        /\ (sf_s = <<"!", " ", "a">> /\ sf_maxlen = 120) => sf_result = <<"_", "a">>
        \* removed before the collapsing
        /\ (sf_s = <<"a", " ", "!", " ", "a">> /\ sf_maxlen = 120)
               => sf_result = <<"a", "_", "a">>
        \* collapsed before the truncation
        /\ (sf_s = <<"a", " ", " ", "a">> /\ sf_maxlen = 3) => sf_result = <<"a", "_", "a">>
        \* truncated before the fallback
        /\ (sf_s = <<"a">> /\ sf_maxlen = 0) => sf_result = <<"o","u","t","p","u","t">>

C9_Witness ==
    /\ pc = "sf_done"
    /\ sf_s = JohnDoe
    /\ sf_maxlen = 120
    /\ sf_result = John_Doe

\* C10 as stated: from the directory creation on, and at the end of every run,
\* the output directory exists; nothing is written at the output path on the
\* status 2 and 3 paths.
C10_Original ==
    pc # "mkdir" =>
        /\ outdir = "dir"
        /\ exit_code \in {2, 3} => ~doc_written

\* C10 amended: the directory is created before the template check and the
\* parsing, so it exists from then on and at every exit with status 0, 2, 3 or
\* 4; when the creation raises, the path is left as it was and the run ends
\* with status 1; nothing is written at the output path before generate_doc.
C10_OutdirCreated ==
    pc # "mkdir" =>
        /\ IF MkdirRaises
           THEN outdir = outdir0 /\ pc = "exit" /\ exit_code = 1
           ELSE outdir = "dir"
        /\ exit_code \in {0, 2, 3, 4} => outdir = "dir"
        /\ exit_code \in {1, 2, 3} => ~doc_written
        /\ doc_written => "generate_doc" \in {calls[i] : i \in 1..Len(calls)}

\* the directory did not exist and the run ends with template-not-found
C10_Witness ==
    /\ pc = "exit"
    /\ exit_code = 2
    /\ outdir0 = "absent"
    /\ outdir = "dir"
    /\ ~doc_written

====
